---- MODULE Spec2Model ----
(***************************************************************************)
(* PrimitiveMap (src/src/lib.rs) over a bucket list, with the growable     *)
(* chaining bucket VecBucket (src/src/bucket/buckets/vec.rs) and the       *)
(* single-slot bucket used for linear probing.                             *)
(*                                                                         *)
(* An Option<T> of the source is a sequence of length at most one:         *)
(* None is <<>> and Some(x) is <<x>>.  A pair (K, V) is <<k, v>>.  A       *)
(* VecBucket is the sequence of its pairs; a single-slot bucket is an      *)
(* Option of a pair.  The bucket list is a sequence of buckets; the bucket *)
(* at address a (counted from 0, as in the source) is bl[a + 1].           *)
(***************************************************************************)
EXTENDS Integers, Sequences, FiniteSets

\* Number of buckets the list is constructed with (BucketListNew).
NumBuckets == 2
\* Number of distinct values.
NumValues == 2

\* One key more than there are buckets, so that a full single-slot list can
\* be offered a further distinct key and a chaining list more keys than slots.
Keys == 0 .. NumBuckets
Values == 1 .. NumValues
\* Hash values; every map from keys to start addresses occurs.
Hashes == 0 .. (NumBuckets - 1)

None == <<>>
Some(x) == <<x>>

VARIABLES
    kind,       \* the bucket type B: "chaining" (VecBucket) or "linear" (single slot)
    hashOf,     \* H::hash, a fixed function of the key
    buckets,    \* PrimitiveMap.buckets
    result,     \* outcome of the most recent operation on the map
    last,       \* history: key -> Option of the value of its latest successful insert
    bucket,     \* a VecBucket used on its own
    old_value   \* outcome of the most recent operation on that bucket

vars == <<kind, hashOf, buckets, result, last, bucket, old_value>>
mapVars == <<kind, hashOf, buckets, result, last>>

----------------------------------------------------------------------------
(* VecBucket: src/src/bucket/buckets/vec.rs *)

VecNew == <<>>

\* A slip in index_of: the position is counted among the matching pairs only
\* (enumerate after the filter), so it is always the first position.
VecIndexOfFiltered(b, key) ==
    IF \E i \in 1 .. Len(b) : b[i][1] = key THEN Some(1) ELSE None

\* index_of: position (from 1) of the first pair whose key is `key`.
VecIndexOf(b, key) ==
    IF \E i \in 1 .. Len(b) : b[i][1] = key
    THEN Some(CHOOSE i \in 1 .. Len(b) :
                 /\ b[i][1] = key
                 /\ \A j \in 1 .. (i - 1) : b[j][1] # key)
    ELSE None

\* A slip in swap_remove: the last element is removed, whatever idx is.
SwapRemoveLast(b, idx) == SubSeq(b, 1, Len(b) - 1)

\* Vec::swap_remove(idx): the last element takes the place of the removed one.
SwapRemove(b, idx) ==
    [j \in 1 .. (Len(b) - 1) |-> IF j = idx THEN b[Len(b)] ELSE b[j]]

\* A slip in insert: the pair is pushed without removing the old one.
VecInsertNoRemove(b, key, value) ==
    [bucket |-> Append(b, <<key, value>>),
     old_value |-> LET idx == VecIndexOf(b, key)
                   IN  IF idx # None THEN Some(b[idx[1]][2]) ELSE None]

\* insert: the bucket after the call and the returned Option<V>.
VecInsert(b, key, value) ==
    LET idx == VecIndexOf(b, key)
    IN  [bucket |-> Append(IF idx # None THEN SwapRemove(b, idx[1]) ELSE b,
                           <<key, value>>),
         old_value |-> IF idx # None THEN Some(b[idx[1]][2]) ELSE None]

\* get: the value of the first pair whose key is `key` (iter().find).
VecGet(b, key) ==
    LET found == {i \in 1 .. Len(b) : b[i][1] = key}
    IN  IF found = {} THEN None
        ELSE Some(b[CHOOSE i \in found : \A j \in found : i <= j][2])

\* A slip in reached_max_capacity: full at the initial capacity of one.
VecReachedMaxCapacityAtOne(b) == Len(b) >= 1

VecReachedMaxCapacity(b) == FALSE

----------------------------------------------------------------------------
(* The single-slot bucket Option<(K, V)>.  reached_max_capacity takes no    *)
(* key (lib.rs:125, vec.rs:30), so it is a function of the slot alone.      *)

OptionNew == None
OptionPush(b, key, value) == Some(<<key, value>>)
OptionGet(b, key) == IF b # None /\ b[1][1] = key THEN Some(b[1][2]) ELSE None
OptionReachedMaxCapacity(b) == b # None

----------------------------------------------------------------------------
(* Bucket trait, dispatched on the bucket type of the map *)

BucketNew(t) == IF t = "chaining" THEN VecNew ELSE OptionNew
\* push(key, value), the call of PrimitiveMap::insert on the bucket found.
BucketPush(t, b, key, value) ==
    IF t = "chaining" THEN VecInsert(b, key, value).bucket
    ELSE OptionPush(b, key, value)
BucketGet(t, b, key) ==
    IF t = "chaining" THEN VecGet(b, key) ELSE OptionGet(b, key)
ReachedMaxCapacity(t, b) ==
    IF t = "chaining" THEN VecReachedMaxCapacity(b) ELSE OptionReachedMaxCapacity(b)

----------------------------------------------------------------------------
(* BucketList *)

BucketListLen(bl) == Len(bl)
Initialized(t) == [i \in 1 .. NumBuckets |-> BucketNew(t)]

\* search / search_mut: the address of the first bucket, in the order
\* start, start+1, ..., len-1, 0, ..., start-1, that satisfies the predicate
\* (sat: the addresses whose bucket satisfies it); None after a full cycle.
Search(bl, start, sat) ==
    LET n == BucketListLen(bl)
        at(i) == (start + i) % n
        hits == {i \in 0 .. (n - 1) : at(i) \in sat}
    IN  IF hits = {} THEN None
        ELSE Some(at(CHOOSE i \in hits : \A j \in hits : i <= j))

----------------------------------------------------------------------------
(* Hasher *)

Hash(key) == hashOf[key]
Compress(hash, len) == hash % len

----------------------------------------------------------------------------
(* PrimitiveMap: src/src/lib.rs *)

\* A slip in get_addr: the key itself is compressed, not its hash.
GetAddrOfKey(bl, key) == Compress(key, BucketListLen(bl))

GetAddr(bl, key) == Compress(Hash(key), BucketListLen(bl))

\* A slip in insert: when no bucket is free the list is grown by a bucket,
\* which takes the pair.
MapInsertGrow(t, bl, key, value) ==
    LET addr == GetAddr(bl, key)
        found == Search(bl, addr,
                     {a \in 0 .. (Len(bl) - 1) : ~ReachedMaxCapacity(t, bl[a + 1])})
    IN  IF found = None
        THEN [exhausted |-> FALSE,
              buckets |-> Append(bl, BucketPush(t, BucketNew(t), key, value))]
        ELSE [exhausted |-> FALSE,
              buckets |-> [bl EXCEPT ![found[1] + 1] = BucketPush(t, @, key, value)]]

\* A slip in insert: only the bucket at the start address is tried.
MapInsertNoProbe(t, bl, key, value) ==
    LET addr == GetAddr(bl, key)
    IN  IF ReachedMaxCapacity(t, bl[addr + 1])
        THEN [exhausted |-> TRUE, buckets |-> bl]
        ELSE [exhausted |-> FALSE,
              buckets |-> [bl EXCEPT ![addr + 1] = BucketPush(t, @, key, value)]]

\* A slip in insert: when no bucket is free the bucket at the start address
\* is used instead of giving up.
MapInsertFallback(t, bl, key, value) ==
    LET addr == GetAddr(bl, key)
        found == Search(bl, addr,
                     {a \in 0 .. (Len(bl) - 1) : ~ReachedMaxCapacity(t, bl[a + 1])})
        at == IF found = None THEN addr ELSE found[1]
    IN  [exhausted |-> FALSE,
         buckets |-> [bl EXCEPT ![at + 1] = BucketPush(t, @, key, value)]]

\* insert: the bucket list after the call, and whether the call ended in
\* expect's panic "PrimitiveMap capacity is exhausted".
MapInsert(t, bl, key, value) ==
    LET addr == GetAddr(bl, key)
        found == Search(bl, addr,
                     {a \in 0 .. (Len(bl) - 1) : ~ReachedMaxCapacity(t, bl[a + 1])})
    IN  IF found = None
        THEN [exhausted |-> TRUE, buckets |-> bl]
        ELSE [exhausted |-> FALSE,
              buckets |-> [bl EXCEPT ![found[1] + 1] = BucketPush(t, @, key, value)]]

\* A slip in get: a miss is treated like insert treats a full list (expect).
MapGetExpect(t, bl, key) ==
    LET addr == GetAddr(bl, key)
        found == Search(bl, addr,
                     {a \in 0 .. (Len(bl) - 1) : BucketGet(t, bl[a + 1], key) # None})
    IN  IF found = None
        THEN [aborted |-> TRUE, value |-> None]
        ELSE [aborted |-> FALSE, value |-> BucketGet(t, bl[found[1] + 1], key)]

\* A slip in get: the first occupied bucket answers, whatever key it holds.
MapGetAnyKey(t, bl, key) ==
    LET addr == GetAddr(bl, key)
        found == Search(bl, addr, {a \in 0 .. (Len(bl) - 1) : bl[a + 1] # <<>>})
    IN  [aborted |-> FALSE,
         value |-> IF found = None THEN None ELSE Some(bl[found[1] + 1][1][2])]

\* A slip in get: only the bucket at the start address is looked at.
MapGetNoProbe(t, bl, key) ==
    [aborted |-> FALSE, value |-> BucketGet(t, bl[GetAddr(bl, key) + 1], key)]

\* get: the returned Option<&V>; the call never aborts.
MapGet(t, bl, key) ==
    LET addr == GetAddr(bl, key)
        found == Search(bl, addr,
                     {a \in 0 .. (Len(bl) - 1) : BucketGet(t, bl[a + 1], key) # None})
    IN  [aborted |-> FALSE,
         value |-> IF found = None THEN None
                   ELSE BucketGet(t, bl[found[1] + 1], key)]

----------------------------------------------------------------------------
(* The map as a state machine *)

Init ==
    /\ kind \in {"chaining", "linear"}
    /\ hashOf \in [Keys -> Hashes]
    /\ buckets = Initialized(kind)
    /\ result = <<"new">>
    /\ last = [k \in Keys |-> None]
    /\ bucket = VecNew
    /\ old_value = <<"new">>

Insert(key, value) ==
    \E r \in {MapInsert(kind, buckets, key, value)} :
        /\ buckets' = r.buckets
        /\ result' = <<IF r.exhausted THEN "exhausted" ELSE "inserted", key>>
        /\ last' = IF r.exhausted THEN last ELSE [last EXCEPT ![key] = Some(value)]
        /\ UNCHANGED <<kind, hashOf, bucket, old_value>>

Get(key) ==
    \E r \in {MapGet(kind, buckets, key)} :
        /\ result' = <<IF r.aborted THEN "aborted" ELSE "got">>
        /\ UNCHANGED <<kind, hashOf, buckets, last, bucket, old_value>>

Next ==
    \/ \E key \in Keys, value \in Values : Insert(key, value)
    \/ \E key \in Keys : Get(key)

Spec == Init /\ [][Next]_vars

----------------------------------------------------------------------------
(* The two configurations on their own *)

InitChaining == Init /\ kind = "chaining"
SpecChaining == InitChaining /\ [][Next]_vars

InitLinear == Init /\ kind = "linear"
SpecLinear == InitLinear /\ [][Next]_vars

\* A caller that fills a single-slot list with distinct keys: insert is
\* called only for keys that were not inserted before.
InsertDistinct(key, value) == last[key] = None /\ Insert(key, value)

NextDistinct ==
    \/ \E key \in Keys, value \in Values : InsertDistinct(key, value)
    \/ \E key \in Keys : Get(key)

SpecDistinct == InitLinear /\ [][NextDistinct]_vars

----------------------------------------------------------------------------
(* A VecBucket on its own *)

InitBucket ==
    /\ kind = "chaining"
    /\ hashOf = [k \in Keys |-> 0]
    /\ buckets = Initialized(kind)
    /\ result = <<"new">>
    /\ last = [k \in Keys |-> None]
    /\ bucket = VecNew
    /\ old_value = <<"new">>

\* old_value records the call: the key, the value and the Option<V> returned.
BucketInsert(key, value) ==
    \E r \in {VecInsert(bucket, key, value)} :
        /\ bucket' = r.bucket
        /\ old_value' = <<"insert", key, value, r.old_value>>
        /\ UNCHANGED mapVars

NextBucket == \E key \in Keys, value \in Values : BucketInsert(key, value)

SpecBucket == InitBucket /\ [][NextBucket]_vars

----------------------------------------------------------------------------
(* Properties *)

\* The keys of the pairs a bucket holds.
KeysIn(b) == {b[i][1] : i \in 1 .. Len(b)}
\* The number of pairs with key `key` stored in the whole bucket list.
Entries(bl, key) ==
    Cardinality(UNION {{<<a, i>> : i \in {j \in 1 .. Len(bl[a]) : bl[a][j][1] = key}} :
                           a \in 1 .. Len(bl)})
\* The keys inserted successfully so far.
Inserted == {k \in Keys : last[k] # None}
\* The step is a call of insert for key k.
InsertCall(k) ==
    /\ result'[1] \in {"inserted", "exhausted"}
    /\ result'[2] = k
\* Every slot of a single-slot list is occupied.
AllOccupied(bl) == \A a \in 1 .. Len(bl) : bl[a] # None
Returned(v) == [aborted |-> FALSE, value |-> v]

\* C1 (Spec): inserting (k, v1) and then (k, v2) leaves exactly one stored
\* entry for k in the whole map, and get(k) returns v2, in the chaining and
\* in the single-slot linear-probing configuration.
C1_IdempotentOverwrite ==
    [][\A k \in Keys :
          (result = <<"inserted", k>> /\ InsertCall(k))
          => /\ result'[1] = "inserted"
             /\ Entries(buckets', k) = 1
             /\ MapGet(kind, buckets', k) = Returned(last'[k])]_vars

\* C2 (Spec): after a successful insert(k, v) followed only by successful
\* inserts of other keys, get(k) returns v.
C2_RoundTrip ==
    \A k \in Keys :
        last[k] # None => MapGet(kind, buckets, k) = Returned(last[k])

\* C3 (SpecDistinct): while distinct keys are inserted into an empty list of
\* NumBuckets single-slot buckets, insert fails only once NumBuckets keys are
\* stored, whatever the start addresses, and get returns the inserted value
\* for every key inserted.
C3_Saturation ==
    /\ result[1] = "exhausted" => Cardinality(Inserted) = NumBuckets
    /\ \A k \in Inserted : MapGet(kind, buckets, k) = Returned(last[k])

\* NumBuckets keys that all start at address 0 have been inserted.
C3_Witness ==
    /\ kind = "linear"
    /\ \A k \in Keys : GetAddr(buckets, k) = 0
    /\ Cardinality(Inserted) = NumBuckets
    /\ result[1] = "inserted"

\* C4 (SpecDistinct): when the single-slot list holds NumBuckets distinct keys,
\* insert of a key that is not stored ends in capacity exhaustion (not in an
\* absent value) and leaves the bucket list as it was, so every stored key
\* keeps its value and the new key is not stored.
C4_Exhaustion ==
    [][(/\ AllOccupied(buckets)
        /\ result'[1] \in {"inserted", "exhausted"}
        /\ \A j \in Keys : Entries(buckets, j) <= 1
        /\ Entries(buckets, result'[2]) = 0)
       => /\ result'[1] = "exhausted"
          /\ buckets' = buckets
          /\ \A j \in Keys : MapGet(kind, buckets', j) = MapGet(kind, buckets, j)
          /\ MapGet(kind, buckets', result'[2]) = Returned(None)]_vars

\* A full list of distinct keys has refused a key it does not store.
C4_Witness ==
    /\ kind = "linear"
    /\ AllOccupied(buckets)
    /\ \A j \in Keys : Entries(buckets, j) <= 1
    /\ result[1] = "exhausted"
    /\ Entries(buckets, result[2]) = 0

\* C5 (SpecChaining): with buckets that never report full, no insert ends in
\* capacity exhaustion, for more distinct keys than buckets too, and every
\* inserted key is retrievable with its most recently inserted value.
C5_UnboundedGrowth ==
    /\ result[1] # "exhausted"
    /\ \A k \in Inserted : MapGet(kind, buckets, k) = Returned(last[k])

\* More keys than buckets are stored, all in one bucket.
C5_Witness ==
    /\ kind = "chaining"
    /\ Inserted = Keys
    /\ \E a \in 1 .. Len(buckets) : Len(buckets[a]) = NumBuckets + 1

\* C6 (Spec): on a freshly constructed map, chaining or linear probing,
\* get(k) returns the absent value for every key and does not abort.
C6_MissOnEmpty ==
    buckets = Initialized(kind)
    => /\ result[1] # "aborted"
       /\ \A k \in Keys : MapGet(kind, buckets, k) = Returned(None)

\* get has been called on a map without insertions.
C6_Witness ==
    /\ buckets = Initialized(kind)
    /\ Inserted = {}
    /\ result = <<"got">>

\* C7 (Spec): in insert(k, v) a single-slot bucket occupied by key k counts as
\* not full, so re-inserting a stored key succeeds and replaces its value in
\* place, also when every slot is occupied.
C7_KeyRelativeFullness ==
    [][\A k \in Keys : \A a \in 1 .. Len(buckets) :
          (/\ kind = "linear"
           /\ k \in KeysIn(buckets[a])
           /\ InsertCall(k))
          => /\ result'[1] = "inserted"
             /\ \E v \in Values :
                    /\ last'[k] = Some(v)
                    /\ buckets' = [buckets EXCEPT ![a] = Some(<<k, v>>)]]_vars

\* C10 (Spec): no key is stored in more than one bucket of the bucket list.
C10_MapWideUniqueness ==
    \A k \in Keys :
        Cardinality({a \in 1 .. Len(buckets) : k \in KeysIn(buckets[a])}) <= 1

\* The bucket at address a (from 0) reports full.
FullAt(a) == ReachedMaxCapacity(kind, buckets[a + 1])
Addrs == 0 .. (Len(buckets) - 1)

\* C11 (Spec): capacity exhaustion happens only on a completely full list:
\* while at least one bucket does not report full, insert succeeds for every
\* key and every start address, and a failed insert leaves every bucket full.
C11_ExhaustionOnlyWhenFull ==
    /\ [](result[1] = "exhausted" => \A a \in Addrs : FullAt(a))
    /\ [][result'[1] = "exhausted" => \A a \in Addrs : FullAt(a)]_vars

\* An insert has succeeded although the bucket at the key's start address
\* was full: the pair was stored further along the probe.
C11_Witness ==
    /\ kind = "linear"
    /\ result[1] = "inserted"
    /\ result[2] \notin KeysIn(buckets[GetAddr(buckets, result[2]) + 1])

\* The place of address b in the order start, start + 1, ..., n - 1, 0, ...,
\* start - 1 over a list of n buckets (0 for start itself).
PlaceInOrder(start, n, b) == IF b >= start THEN b - start ELSE b - start + n
\* The first address of that order that is in S (S is not empty).
FirstOf(start, n, S) ==
    CHOOSE b \in S : \A c \in S : PlaceInOrder(start, n, b) <= PlaceInOrder(start, n, c)

C13_ChainingPlacement ==
    /\ \A b \in Addrs : \A k \in KeysIn(buckets[b + 1]) :
           Compress(Hash(k), Len(buckets)) = b
    /\ \A k \in Keys, v \in Values :
           MapInsert(kind, buckets, k, v) =
               [exhausted |-> FALSE,
                buckets |-> [buckets EXCEPT ![Compress(Hash(k), Len(buckets)) + 1] =
                                                VecInsert(@, k, v).bucket]]

\* Every key is stored, and a bucket holds more than one pair.
C13_Witness ==
    /\ kind = "chaining"
    /\ Inserted = Keys
    /\ result[1] = "inserted"
    /\ \E b \in Addrs : Len(buckets[b + 1]) >= 2
    /\ \E b \in Addrs : buckets[b + 1] = <<>>

\* C14 (Spec): the number of bucket slots is constant: the list keeps the
\* length it was constructed with, and no insert, successful or failing,
\* and no get changes it.
C14_LenConstant ==
    /\ [](BucketListLen(buckets) = BucketListLen(Initialized(kind)))
    /\ [][BucketListLen(buckets') = BucketListLen(buckets)]_vars

\* Inserts have succeeded and the latest one has failed.
C14_Witness ==
    /\ result[1] = "exhausted"
    /\ Inserted # {}

\* The positions (from 1) at which two bucket lists of one length differ.
Changed(bl1, bl2) == {p \in 1 .. Len(bl1) : bl1[p] # bl2[p]}
\* get gives the same for every key other than k on both lists.
SameForOthers(bl1, bl2, k) ==
    \A j \in Keys \ {k} : MapGet(kind, bl1, j) = MapGet(kind, bl2, j)
\* (k, v) is already the last pair of the chaining bucket at k's address.
AlreadyLast(k, v) ==
    /\ kind = "chaining"
    /\ buckets[GetAddr(buckets, k) + 1] # <<>>
    /\ buckets[GetAddr(buckets, k) + 1][Len(buckets[GetAddr(buckets, k) + 1])] = <<k, v>>

\* C15 (Spec), as claimed: a successful insert(k, v) changes the contents of
\* exactly one bucket and leaves get(j) unchanged for every key j other than
\* k, in the chaining and in the linear-probing configuration.
C15_InsertFrameExactlyOne ==
    [][result'[1] = "inserted" =>
          /\ Cardinality(Changed(buckets, buckets')) = 1
          /\ SameForOthers(buckets, buckets', result'[2])]_vars

\* C15 (Spec), amended: a successful insert(k, v) changes the contents of at
\* most one bucket, and of none exactly when (k, v) is already the last pair
\* of its chaining bucket; it leaves get(j) unchanged for every other key j.
C15_InsertFrame ==
    [][result'[1] = "inserted" =>
          \E k \in {result'[2]} :
          \E changed \in {Changed(buckets, buckets')} :
              /\ Cardinality(changed) <= 1
              /\ changed = {} <=> AlreadyLast(k, last'[k][1])
              /\ SameForOthers(buckets, buckets', k)]_vars

\* An insert has succeeded on a map that stores other keys, in a chaining
\* bucket of several pairs.
C15_Witness ==
    /\ result[1] = "inserted"
    /\ Cardinality(Inserted) >= 2
    /\ \E b \in Addrs : Len(buckets[b + 1]) >= 2

\* C16 (Spec): in every reachable state, a completely full single-slot list
\* included, get(k) for a key that was never inserted returns the absent
\* value and does not abort, and a call of get leaves the bucket list
\* unchanged.
C16_MissNeverError ==
    /\ [](/\ result[1] # "aborted"
          /\ \A k \in Keys \ Inserted : MapGet(kind, buckets, k) = Returned(None))
    /\ [][result'[1] \in {"got", "aborted"} => buckets' = buckets]_vars

\* get has run on a full single-slot list that misses a key.
C16_Witness ==
    /\ kind = "linear"
    /\ \A a \in Addrs : buckets[a + 1] # None
    /\ Inserted # Keys
    /\ result = <<"got">>

----------------------------------------------------------------------------
(* Properties of the VecBucket *)

\* C8 (SpecBucket): VecBucket::insert(key, value) returns the value stored
\* for key before the call, or nothing when no pair had that key, and
\* afterwards get(key) on the bucket returns the new value.
C8_BucketInsertResult ==
    [][old_value'[1] = "insert" =>
          LET key == old_value'[2]
              stored == {bucket[i][2] : i \in {j \in 1 .. Len(bucket) : bucket[j][1] = key}}
          IN  /\ old_value'[4] \in (IF stored = {} THEN {None}
                                    ELSE {Some(v) : v \in stored})
              /\ VecGet(bucket', key) = Some(old_value'[3])]_vars

\* An insert has returned a stored value from a bucket of several pairs.
C8_Witness ==
    /\ old_value[1] = "insert"
    /\ old_value[4] # None
    /\ old_value[4] # Some(old_value[3])
    /\ Len(bucket) >= 2

\* C9 (SpecBucket): starting from an empty VecBucket, after any sequence of
\* insert calls no two pairs of the bucket share a key.
C9_BucketKeyUniqueness ==
    \A i, j \in 1 .. Len(bucket) : i # j => bucket[i][1] # bucket[j][1]

\* A key has been inserted again into a bucket that holds every key.
C9_Witness ==
    /\ KeysIn(bucket) = Keys
    /\ old_value[1] = "insert"
    /\ old_value[4] # None

\* The pairs of bucket b whose key is not `key`.
OtherPairs(b, key) == {b[i] : i \in {j \in 1 .. Len(b) : b[j][1] # key}}

\* C17 (SpecBucket): an insert(key, value) into a VecBucket leaves the set of
\* pairs of all other keys as it was; the size of the bucket stays the same
\* when the key was in the bucket and grows by exactly one when it was not.
C17_OverwritePreservesOthers ==
    [][old_value'[1] = "insert" =>
          \E key \in {old_value'[2]} :
              /\ OtherPairs(bucket', key) = OtherPairs(bucket, key)
              /\ key \in KeysIn(bucket) => Len(bucket') = Len(bucket)
              /\ key \notin KeysIn(bucket) => Len(bucket') = Len(bucket) + 1]_vars

\* The pair of a key has been replaced by a pair with another value in a
\* bucket that holds every key.
C17_Witness ==
    /\ Len(bucket) = Cardinality(Keys)
    /\ old_value[1] = "insert"
    /\ old_value[4] # None
    /\ old_value[4] # Some(old_value[3])

====
